---- MODULE Spec2Model ----
(***************************************************************************)
(* A model of the fastly-python client (src/fastly/__init__.py) and of the *)
(* upload workflow built on it (src/bin/fastly_upload_vcl.py), run against *)
(* a model of the versioned configuration service the client talks to.    *)
(***************************************************************************)
EXTENDS Naturals, Integers, Sequences, FiniteSets, TLC

\* ------------------------------------------------------------------ bounds

\* Number of versions a service may hold when a run starts.
MaxInit == 2

\* Number of versions a service may hold in the free lifecycle runs.
MaxVersions == 3

\* Number of arguments a caller sets himself in one call of a method.
MaxGiven == 1

\* Number of updates made to one configuration object.
MaxUpdates == 1

\* The concurrent runs of the upload script.
Callers == {1, 2}

\* VCL file names that occur on the service.
Names == {"f.vcl", "g.vcl"}

NoName == "none"
Absent == "absent"

\* vcl_name of the upload script: the basename of the file given with --file.
vcl_name(c) == "f.vcl"

\* vcl_content of the upload script: what the caller's file holds.
vcl_content(c) == IF c = 1 THEN "new1" ELSE "new2"

\* ------------------------------------------------------- service (server)

\* One version of the service: its flags, its VCL files (name -> content)
\* and the name of its main VCL. A version that was deleted keeps its place,
\* marked gone: its number is not given out again.
Has(vs, n) == n \in DOMAIN vs /\ ~vs[n].gone

Draft(vs, n) == Has(vs, n) /\ ~vs[n].locked /\ ~vs[n].active

ActiveSet(vs) == {n \in DOMAIN vs : ~vs[n].gone /\ vs[n].active}

VersionJson(vs, n) ==
    [number |-> n, locked |-> vs[n].locked, active |-> vs[n].active]

NoVersion == [number |-> 0, locked |-> FALSE, active |-> FALSE]

EmptyVcl == [x \in Names |-> Absent]

Present(vs, n) == {x \in Names : vs[n].vcl[x] # Absent}

\* The order in which list_vcls reports the files of a version.
RECURSIVE SeqOfNames(_)
SeqOfNames(S) ==
    IF S = {} THEN << >>
    ELSE LET x == CHOOSE y \in S : \A z \in S : y = z \/ y = "f.vcl"
         IN  <<x>> \o SeqOfNames(S \ {x})

Reply(vs, ok, err, ver, names) ==
    [vs |-> vs, ok |-> ok, err |-> err, ver |-> ver, names |-> names]

Refuse(vs, err) == Reply(vs, FALSE, err, NoVersion, << >>)

\* PUT /service/{id}/version/{n}/clone: a new version with the next number that
\* inherits the configuration of n and is neither locked nor active.
ServerClone_Empty(vs, n) ==
    IF ~Has(vs, n) THEN Refuse(vs, "notfound")
    ELSE LET new == Append(vs, [vcl |-> EmptyVcl, main |-> NoName,
                                locked |-> FALSE, active |-> FALSE, gone |-> FALSE])
         IN  Reply(new, TRUE, "none", VersionJson(new, Len(new)), << >>)

ServerClone(vs, n) ==
    IF ~Has(vs, n) THEN Refuse(vs, "notfound")
    ELSE LET new == Append(vs, [vs[n] EXCEPT !.locked = FALSE, !.active = FALSE])
         IN  Reply(new, TRUE, "none", VersionJson(new, Len(new)), << >>)

\* POST /service/{id}/version: a new empty version with the next number.
ServerCreate(vs) ==
    LET new == Append(vs, [locked |-> FALSE, active |-> FALSE, gone |-> FALSE,
                           vcl |-> EmptyVcl, main |-> NoName])
    IN  Reply(new, TRUE, "none", VersionJson(new, Len(new)), << >>)

\* An activation that leaves the version active before it as it is.
ServerActivate_KeepsOld(vs, n) ==
    IF ~Has(vs, n) THEN Refuse(vs, "notfound")
    ELSE LET new == [vs EXCEPT ![n].active = TRUE, ![n].locked = TRUE]
         IN  Reply(new, TRUE, "none", VersionJson(new, n), << >>)

\* PUT .../activate: n becomes active and locked; whichever version was active
\* is deactivated in the same step.
ServerActivate(vs, n) ==
    IF ~Has(vs, n) THEN Refuse(vs, "notfound")
    ELSE LET new == [m \in DOMAIN vs |->
                        IF m = n THEN [vs[m] EXCEPT !.active = TRUE, !.locked = TRUE]
                        ELSE [vs[m] EXCEPT !.active = FALSE]]
         IN  Reply(new, TRUE, "none", VersionJson(new, n), << >>)

\* PUT .../deactivate: clears active, keeps locked.
ServerDeactivate(vs, n) ==
    IF ~Has(vs, n) THEN Refuse(vs, "notfound")
    ELSE LET new == [vs EXCEPT ![n].active = FALSE]
         IN  Reply(new, TRUE, "none", VersionJson(new, n), << >>)

\* GET .../lock: n becomes locked.
ServerLock(vs, n) ==
    IF ~Has(vs, n) THEN Refuse(vs, "notfound")
    ELSE Reply([vs EXCEPT ![n].locked = TRUE], TRUE, "none", NoVersion, << >>)

\* DELETE /service/{id}/version/{n}: the version is gone, with all it held.
ServerDeleteVersion(vs, n) ==
    IF ~Has(vs, n) THEN Refuse(vs, "notfound")
    ELSE Reply([vs EXCEPT ![n] = [locked |-> FALSE, active |-> FALSE, gone |-> TRUE,
                                  vcl |-> EmptyVcl, main |-> NoName]],
               TRUE, "none", NoVersion, << >>)

\* PUT /service/{id}/version/{n}/: refused on a locked or active version. The
\* flags of a version change by activate, deactivate and lock only; what an
\* update changes on a draft (its comment) is not among the things tracked.
ServerUpdateVersion(vs, n) ==
    IF ~Has(vs, n) THEN Refuse(vs, "notfound")
    ELSE IF ~Draft(vs, n) THEN Refuse(vs, "locked")
    ELSE Reply(vs, TRUE, "none", VersionJson(vs, n), << >>)

\* A write to the VCL files of version n: refused on a locked or active version.
ServerWrite(vs, req) ==
    LET n == req.num
        x == req.name
    IN  IF ~Has(vs, n) THEN Refuse(vs, "notfound")
        ELSE IF ~Draft(vs, n) THEN Refuse(vs, "locked")
        ELSE IF req.op = "upload_vcl" THEN
            IF vs[n].vcl[x] # Absent THEN Refuse(vs, "conflict")
            ELSE Reply([vs EXCEPT ![n].vcl[x] = req.content], TRUE, "none",
                       NoVersion, << >>)
        ELSE IF vs[n].vcl[x] = Absent THEN Refuse(vs, "notfound")
        ELSE IF req.op = "update_vcl" THEN
            Reply([vs EXCEPT ![n].vcl[x] = req.content], TRUE, "none",
                  NoVersion, << >>)
        ELSE IF req.op = "delete_vcl" THEN
            Reply([vs EXCEPT ![n].vcl[x] = Absent,
                             ![n].main = IF @ = x THEN NoName ELSE @],
                  TRUE, "none", NoVersion, << >>)
        ELSE Reply([vs EXCEPT ![n].main = x], TRUE, "none", NoVersion, << >>)

\* The service's answer to one request.
Serve(vs, req) ==
    CASE req.op = "clone_version"      -> ServerClone(vs, req.num)
      [] req.op = "create_version"     -> ServerCreate(vs)
      [] req.op = "activate_version"   -> ServerActivate(vs, req.num)
      [] req.op = "deactivate_version" -> ServerDeactivate(vs, req.num)
      [] req.op = "lock_version"       -> ServerLock(vs, req.num)
      [] req.op = "delete_version"     -> ServerDeleteVersion(vs, req.num)
      [] req.op = "update_version"     -> ServerUpdateVersion(vs, req.num)
      [] req.op = "list_vcls"          ->
            IF Has(vs, req.num)
            THEN Reply(vs, TRUE, "none", NoVersion, SeqOfNames(Present(vs, req.num)))
            ELSE Refuse(vs, "notfound")
      [] OTHER                         -> ServerWrite(vs, req)

\* A request that does not get through, or that the service answers with an
\* error status, changes nothing.
Exchange(vs, req, down) == IF down THEN Refuse(vs, "http") ELSE Serve(vs, req)

\* The orders in which GET /service/{id}/version may list the versions.
Listings(vs) ==
    LET there == {m \in DOMAIN vs : ~vs[m].gone}
        n == Cardinality(there)
        perms == {p \in [1..n -> there] : \A i, j \in 1..n : i # j => p[i] # p[j]}
    IN  {[i \in 1..n |-> VersionJson(vs, p[i])] : p \in perms}

\* ------------------------------------------------------- client requests

Request(method, op, num, name, content) ==
    [method |-> method, op |-> op, num |-> num, name |-> name, content |-> content]

\* A clone_version that sends its PUT to the activate path.
clone_version_activates(n) == Request("PUT", "activate_version", n, NoName, Absent)

clone_version(n) == Request("PUT", "clone_version", n, NoName, Absent)

\* An activate_version that sends its PUT to the deactivate path.
activate_version_deactivates(n) == Request("PUT", "deactivate_version", n, NoName, Absent)

activate_version(n) == Request("PUT", "activate_version", n, NoName, Absent)

deactivate_version(n) == Request("PUT", "deactivate_version", n, NoName, Absent)

create_version == Request("POST", "create_version", 0, NoName, Absent)

lock_version(n) == Request("GET", "lock_version", n, NoName, Absent)

delete_version(n) == Request("DELETE", "delete_version", n, NoName, Absent)

list_vcls(n) == Request("GET", "list_vcls", n, NoName, Absent)

upload_vcl(n, name, content) == Request("POST", "upload_vcl", n, name, content)

update_vcl(n, name, content) == Request("PUT", "update_vcl", n, name, content)

delete_vcl(n, name) == Request("DELETE", "delete_vcl", n, name, Absent)

set_main_vcl(n, name) == Request("PUT", "set_main_vcl", n, name, Absent)

\* versions.pop(): the last element of the list as the service sent it.
Pop(lst) == lst[Len(lst)]

\* A test that looks at the active flag alone.
NeedsClone_ActiveOnly(v) == v.active = TRUE

\* A test that is always true: the script clones whatever it finds.
NeedsClone_Always(v) == TRUE

\* latest.locked is True or latest.active is True
NeedsClone(v) == v.locked = TRUE \/ v.active = TRUE

\* ------------------------------------------- values and request bodies

\* Python values as the client handles them: the type and the text str() gives,
\* one character per element.
PyNone == [ty |-> "NoneType", val |-> <<"N", "o", "n", "e">>]

PyTrue == [ty |-> "bool", val |-> <<"T", "r", "u", "e">>]

PyFalse == [ty |-> "bool", val |-> <<"F", "a", "l", "s", "e">>]

PyInt(digits) == [ty |-> "int", val |-> digits]

PyStr(chars) == [ty |-> "str", val |-> chars]

\* The characters urllib.quote_plus leaves as they are.
SafeChars ==
    {"a", "b", "c", "d", "e", "f", "g", "h", "i", "j", "k", "l", "m", "n", "o",
     "p", "q", "r", "s", "t", "u", "v", "w", "x", "y", "z",
     "A", "D", "E", "F", "H", "K", "N", "O", "T",
     "0", "1", "2", "3", "4", "5", "6", "7", "8", "9", "_", ".", "-"}

\* urllib.quote_plus on one character.
QuoteChar(ch) ==
    CASE ch \in SafeChars -> <<ch>>
      [] ch = " "         -> <<"+">>
      [] ch = "&"         -> <<"%", "2", "6">>
      [] ch = "="         -> <<"%", "3", "D">>
      [] ch = "+"         -> <<"%", "2", "B">>
      [] ch = "/"         -> <<"%", "2", "F">>
      [] ch = "%"         -> <<"%", "2", "5">>

RECURSIVE QuotePlus(_)
QuotePlus(chars) ==
    IF chars = << >> THEN << >>
    ELSE QuoteChar(Head(chars)) \o QuotePlus(Tail(chars))

\* What the service reads back from an encoded value.
RECURSIVE Unquote(_)
Unquote(enc) ==
    IF enc = << >> THEN << >>
    ELSE IF Head(enc) = "+" THEN <<" ">> \o Unquote(Tail(enc))
    ELSE IF Head(enc) = "%" THEN
        LET code == <<enc[2], enc[3]>>
            ch   == CASE code = <<"2", "6">> -> "&"
                      [] code = <<"3", "D">> -> "="
                      [] code = <<"2", "B">> -> "+"
                      [] code = <<"2", "F">> -> "/"
                      [] code = <<"2", "5">> -> "%"
        IN  <<ch>> \o Unquote(SubSeq(enc, 4, Len(enc)))
    ELSE <<Head(enc)>> \o Unquote(Tail(enc))

\* urllib.urlencode(data): every value goes through str() and quote_plus; the
\* body is the key=value pairs joined by "&", kept here as key -> value.
urlencode(data) == [k \in DOMAIN data |-> QuotePlus(data[k].val)]

\* A _formdata that keeps the values that are true in a condition.
FormData_Truthy(fields, valid) ==
    LET truthy(v) == /\ v.ty # "NoneType"
                     /\ v # PyFalse
                     /\ v.val # << >>
                     /\ ~(v.ty = "int" /\ v.val = <<"0">>)
        keep == {k \in DOMAIN fields : k \in valid /\ truthy(fields[k])}
    IN  [k \in keep |->
            IF fields[k].ty = "bool"
            THEN PyStr(IF fields[k] = PyTrue THEN <<"1">> ELSE <<"0">>)
            ELSE fields[k]]

\* The dictionary _formdata builds (lines 1041-1046): the allowed keys whose
\* value is not None, booleans turned into str(int(value)).
FormData(fields, valid) ==
    LET keep == {k \in DOMAIN fields : k \in valid /\ fields[k].ty # "NoneType"}
    IN  [k \in keep |->
            IF fields[k].ty = "bool"
            THEN PyStr(IF fields[k] = PyTrue THEN <<"1">> ELSE <<"0">>)
            ELSE fields[k]]

_formdata(fields, valid) == urlencode(FormData(fields, valid))

\* ------------------------------------------------------ field allow-lists

FastlyBackend_FIELDS ==
    {"service_id", "version", "name", "address", "port", "use_ssl",
     "connect_timeout", "first_byte_timeout", "between_bytes_timeout",
     "error_threshold", "max_conn", "weight", "auto_loadbalance", "shield",
     "request_condition", "healthcheck", "comment"}

FastlyCacheSettings_FIELDS ==
    {"service_id", "version", "name", "action", "ttl", "stale_ttl", "cache_condition"}

FastlyCondition_FIELDS ==
    {"name", "service_id", "version", "type", "statement", "priority"}

FastlyCustomer_FIELDS ==
    {"can_configure_wordpress", "can_edit_matches", "name", "created_at",
     "updated_at", "can_stream_syslog", "id", "pricing_plan", "can_upload_vcl",
     "has_config_panel", "raw_api_key", "has_billing_panel",
     "can_reset_passwords", "owner_id"}

FastlyDirector_FIELDS ==
    {"name", "service_id", "version", "quorum", "type", "retries", "shield",
     "created", "updated", "deleted", "capacity", "comment"}

FastlyDomain_FIELDS == {"name", "comment", "service_id", "version"}

FastlyHeader_FIELDS ==
    {"name", "service_id", "version", "dst", "src", "type", "action", "regex",
     "substitution", "ignore_if_set", "priority", "response_condition",
     "request_condition", "cache_condition"}

FastlyHealthCheck_FIELDS ==
    {"service_id", "version", "name", "method", "host", "path", "http_version",
     "timeout", "check_interval", "expected_response", "window", "threshold",
     "initial", "comment"}

FastlyRequestSetting_FIELDS ==
    {"service_id", "version", "name", "default_host", "force_miss", "force_ssl",
     "action", "bypass_busy_wait", "max_stale_age", "hash_keys", "xff",
     "timer_support", "geo_headers", "request_condition"}

FastlyResponseObject_FIELDS ==
    {"name", "service_id", "version", "status", "response", "content",
     "cache_condition", "request_condition"}

\* "versions" "comment" in the source is one string: the comma is missing.
FastlyService_FIELDS ==
    {"id", "name", "customer_id", "publish_key", "active_version", "versionscomment"}

FastlySettings_FIELDS == {"service_id", "version"}

FastlySyslog_FIELDS ==
    {"name", "service_id", "version", "address", "port", "use_tls", "tls_ca_cert",
     "token", "format", "response_condition", "created", "updated", "deleted"}

FastlyUser_FIELDS ==
    {"name", "created_at", "updated_at", "role", "id", "email_hash",
     "customer_id", "require_new_password", "login"}

FastlyVCL_FIELDS ==
    {"name", "service_id", "version", "generation", "md5", "content", "main", "vcl"}

FastlyVersion_FIELDS ==
    {"comment", "staging", "locked", "created_at", "testing", "number",
     "updated_at", "active", "service_id", "deleted_at", "deployed",
     "inherit_service_id"}

FastlyWordpress_FIELDS == {"service_id", "version", "name", "path", "comment"}

\* --------------------------------------------- the connection's methods

\* The value a caller passes for a parameter that has no default.
Given == PyStr(<<"x">>)

\* The values a caller may pass for a parameter.
Values ==
    {PyNone, PyTrue, PyFalse, PyInt(<<"0">>), PyInt(<<"8", "0">>),
     PyStr(<< >>), PyStr(<<"a", " ", "&">>)}

\* The dictionary each create method hands to _formdata, with the defaults
\* of its signature.
Params(op) ==
    CASE op = "create_backend" ->
            ("name" :> Given) @@ ("address" :> Given) @@ ("use_ssl" :> PyFalse)
            @@ ("port" :> PyInt(<<"8", "0">>))
            @@ ("connect_timeout" :> PyInt(<<"1", "0", "0", "0">>))
            @@ ("first_byte_timeout" :> PyInt(<<"1", "5", "0", "0", "0">>))
            @@ ("between_bytes_timeout" :> PyInt(<<"1", "0", "0", "0", "0">>))
            @@ ("error_threshold" :> PyInt(<<"0">>))
            @@ ("max_conn" :> PyInt(<<"2", "0">>))
            @@ ("weight" :> PyInt(<<"1", "0", "0">>))
            @@ ("auto_loadbalance" :> PyFalse) @@ ("shield" :> PyNone)
            @@ ("request_condition" :> PyNone) @@ ("healthcheck" :> PyNone)
            @@ ("comment" :> PyNone)
      [] op = "create_cache_settings" ->
            ("name" :> Given) @@ ("action" :> Given) @@ ("ttl" :> PyNone)
            @@ ("stale_ttl" :> PyNone) @@ ("cache_condition" :> PyNone)
      [] op = "create_condition" ->
            ("name" :> Given) @@ ("type" :> Given) @@ ("statement" :> Given)
            @@ ("priority" :> PyStr(<<"1", "0">>)) @@ ("comment" :> PyNone)
      [] op = "create_director" ->
            ("name" :> Given) @@ ("quorum" :> PyInt(<<"7", "5">>))
            @@ ("type" :> PyInt(<<"1">>)) @@ ("retries" :> PyInt(<<"5">>))
            @@ ("shield" :> PyNone)
      [] op = "create_domain" -> ("name" :> Given) @@ ("comment" :> PyNone)
      [] op = "create_header" ->
            ("name" :> Given) @@ ("dst" :> Given) @@ ("src" :> Given)
            @@ ("type" :> PyStr(<<"r", "e", "s", "p", "o", "n", "s", "e">>))
            @@ ("action" :> PyStr(<<"s", "e", "t">>))
            @@ ("regex" :> PyNone) @@ ("substitution" :> PyNone)
            @@ ("ignore_if_set" :> PyNone) @@ ("priority" :> PyInt(<<"1", "0">>))
            @@ ("response_condition" :> PyNone) @@ ("request_condition" :> PyNone)
            @@ ("cache_condition" :> PyNone)
      [] op = "create_healthcheck" ->
            ("name" :> Given) @@ ("method" :> PyStr(<<"H", "E", "A", "D">>))
            @@ ("host" :> Given) @@ ("path" :> PyStr(<<"/">>))
            @@ ("http_version" :> PyStr(<<"1", ".", "1">>))
            @@ ("timeout" :> PyInt(<<"1", "0", "0", "0">>))
            @@ ("check_interval" :> PyInt(<<"5", "0", "0", "0">>))
            @@ ("expected_response" :> PyInt(<<"2", "0", "0">>))
            @@ ("window" :> PyInt(<<"5">>)) @@ ("threshold" :> PyInt(<<"3">>))
            @@ ("initial" :> PyInt(<<"1">>))
      [] op = "create_request_setting" ->
            ("name" :> Given) @@ ("default_host" :> PyNone) @@ ("force_miss" :> PyNone)
            @@ ("force_ssl" :> PyNone) @@ ("action" :> PyNone)
            @@ ("bypass_busy_wait" :> PyNone) @@ ("max_stale_age" :> PyNone)
            @@ ("hash_keys" :> PyNone) @@ ("xff" :> PyNone)
            @@ ("timer_support" :> PyNone) @@ ("geo_headers" :> PyNone)
            @@ ("request_condition" :> PyNone)
      [] op = "create_response_object" ->
            ("name" :> Given) @@ ("status" :> PyStr(<<"2", "0", "0">>))
            @@ ("response" :> PyStr(<<"O", "K">>)) @@ ("content" :> PyStr(<< >>))
            @@ ("request_condition" :> PyNone) @@ ("cache_condition" :> PyNone)
      [] op = "create_service" ->
            ("customer_id" :> Given) @@ ("name" :> Given)
            @@ ("publish_key" :> PyNone) @@ ("comment" :> PyNone)
      [] op = "create_syslog" ->
            ("name" :> Given) @@ ("address" :> Given)
            @@ ("port" :> PyInt(<<"5", "1", "4">>)) @@ ("use_tls" :> PyStr(<<"0">>))
            @@ ("tls_ca_cert" :> PyNone) @@ ("token" :> PyNone)
            @@ ("format" :> PyNone) @@ ("response_condition" :> PyNone)
      [] op = "create_user" ->
            ("customer_id" :> Given) @@ ("name" :> Given) @@ ("login" :> Given)
            @@ ("password" :> Given) @@ ("role" :> PyStr(<<"u", "s", "e", "r">>))
            @@ ("require_new_password" :> PyTrue)
      [] op = "upload_vcl" ->
            ("name" :> Given) @@ ("content" :> Given) @@ ("comment" :> PyNone)
            @@ ("main" :> PyNone)
      [] op = "create_version" ->
            ("service_id" :> Given) @@ ("inherit_service_id" :> PyNone)
            @@ ("comment" :> PyNone)
      [] op = "create_wordpress" ->
            ("name" :> Given) @@ ("path" :> Given) @@ ("comment" :> PyNone)
      [] op = "login" -> ("user" :> Given) @@ ("password" :> Given)
      [] op = "change_password" -> ("old_password" :> Given) @@ ("password" :> Given)

CreateOps ==
    {"create_backend", "create_cache_settings", "create_condition",
     "create_director", "create_domain", "create_header", "create_healthcheck",
     "create_request_setting", "create_response_object", "create_service",
     "create_syslog", "create_user", "upload_vcl", "create_version",
     "create_wordpress"}

UpdateOps ==
    {"update_backend", "update_cache_settings", "update_condition",
     "update_customer", "update_director", "update_domain", "update_header",
     "update_healthcheck", "update_request_setting", "update_response_object",
     "update_service", "update_settings", "update_syslog", "update_user",
     "update_vcl", "update_version", "update_wordpress"}

\* Methods that build a body from a literal dictionary and a literal list.
FormOps == {"login", "change_password"}

\* The methods that create, fetch and delete a named configuration object of
\* one version of a service.
ConfigCreates ==
    {"create_backend", "create_cache_settings", "create_condition",
     "create_director", "create_domain", "create_header", "create_healthcheck",
     "create_request_setting", "create_response_object", "create_syslog",
     "upload_vcl", "create_wordpress"}

ConfigGets ==
    {"get_backend", "get_cache_settings", "get_condition", "get_director",
     "get_domain", "get_header", "get_healthcheck", "get_request_setting",
     "get_response_object", "get_syslog", "get_vcl", "get_wordpress"}

ConfigUpdates ==
    {"update_backend", "update_cache_settings", "update_condition",
     "update_director", "update_domain", "update_header", "update_healthcheck",
     "update_request_setting", "update_response_object", "update_syslog",
     "update_vcl", "update_wordpress"}

ConfigDeletes ==
    {"delete_backend", "delete_cache_settings", "delete_condition",
     "delete_director", "delete_domain", "delete_header", "delete_healthcheck",
     "delete_request_setting", "delete_response_object", "delete_syslog",
     "delete_vcl", "delete_wordpress"}

\* Methods that send no body and wrap the answer in an object.
ObjectOps ==
    ConfigGets
    \cup {"set_main_vcl", "clone_version", "activate_version",
          "deactivate_version", "purge_url", "get_current_customer",
          "get_customer", "get_director_backend", "create_director_backend",
          "check_domain", "get_event_log", "get_service", "get_service_details",
          "get_service_by_name", "get_settings", "get_current_user", "get_user",
          "request_password_reset", "get_generated_vcl", "get_version"}

\* Methods that send no body and map the answer to a list of objects.
ListOps ==
    {"list_versions", "list_vcls", "list_backends", "check_purge_status",
     "list_cache_settings", "list_conditions", "list_customer_users",
     "list_directors", "list_domains", "check_domains", "list_headers",
     "list_healthchecks", "list_request_settings", "list_response_objects",
     "list_services", "list_domains_by_service", "list_syslogs",
     "list_wordpressess"}

\* Methods that send no body and return the content as it is.
RawOps == {"check_backends", "content_edge_check", "get_customer_details", "get_stats"}

\* Methods that send no body and return content.get("content", None).
ContentOps == {"get_vcl_html", "get_generated_vcl_html"}

\* Methods that send no body and pass the answer to _status.
StatusOps ==
    (ConfigDeletes \ {"delete_domain"})
    \cup {"delete_customer", "delete_director_backend", "delete_service",
          "delete_user", "delete_version", "purge_service",
          "purge_service_by_key", "validate_version", "lock_version"}

Ops ==
    CreateOps \cup UpdateOps \cup FormOps \cup ObjectOps \cup ListOps
    \cup StatusOps \cup RawOps \cup ContentOps \cup {"delete_domain", "download_vcl"}

\* The kind of configuration object a method works on.
Kind(op) ==
    CASE op \in {"create_backend", "get_backend", "update_backend", "delete_backend"} -> "backend"
      [] op \in {"create_cache_settings", "get_cache_settings", "update_cache_settings",
                 "delete_cache_settings"} -> "cache_settings"
      [] op \in {"create_condition", "get_condition", "update_condition", "delete_condition"} -> "condition"
      [] op \in {"create_director", "get_director", "update_director", "delete_director"} -> "director"
      [] op \in {"create_domain", "get_domain", "update_domain", "delete_domain"} -> "domain"
      [] op \in {"create_header", "get_header", "update_header", "delete_header"} -> "header"
      [] op \in {"create_healthcheck", "get_healthcheck", "update_healthcheck", "delete_healthcheck"} ->
            "healthcheck"
      [] op \in {"create_request_setting", "get_request_setting", "update_request_setting",
                 "delete_request_setting"} -> "request_settings"
      [] op \in {"create_response_object", "get_response_object", "update_response_object",
                 "delete_response_object"} -> "response_object"
      [] op \in {"create_syslog", "get_syslog", "update_syslog", "delete_syslog"} -> "syslog"
      [] op \in {"upload_vcl", "get_vcl", "update_vcl", "delete_vcl"} -> "vcl"
      [] op \in {"create_wordpress", "get_wordpress", "update_wordpress", "delete_wordpress"} -> "wordpress"

\* The FIELDS of the class a get method wraps its answer in.
ClassFields(kind) ==
    CASE kind = "backend" -> FastlyBackend_FIELDS
      [] kind = "cache_settings" -> FastlyCacheSettings_FIELDS
      [] kind = "condition" -> FastlyCondition_FIELDS
      [] kind = "director" -> FastlyDirector_FIELDS
      [] kind = "domain" -> FastlyDomain_FIELDS
      [] kind = "header" -> FastlyHeader_FIELDS
      [] kind = "healthcheck" -> FastlyHealthCheck_FIELDS
      [] kind = "request_settings" -> FastlyRequestSetting_FIELDS
      [] kind = "response_object" -> FastlyResponseObject_FIELDS
      [] kind = "syslog" -> FastlySyslog_FIELDS
      [] kind = "vcl" -> FastlyVCL_FIELDS
      [] kind = "wordpress" -> FastlyWordpress_FIELDS

\* FastlyObject.__getattr__: the value the answer holds under a name of FIELDS,
\* None when it holds none, AttributeError for any other name.
__getattr__(FIELDS, data, name) ==
    IF name \in FIELDS
    THEN IF name \in DOMAIN data THEN data[name] ELSE <<"N", "o", "n", "e">>
    ELSE <<"AttributeError">>

\* obj.<name> on the object a get method returns. FastlyBackend defines a
\* property healthcheck that reads self.healthcheck, itself: the read never
\* gets to __getattr__ and ends in RuntimeError (recursion depth).
Attribute(kind, data, name) ==
    IF kind = "backend" /\ name = "healthcheck" THEN <<"RuntimeError">>
    ELSE __getattr__(ClassFields(kind), data, name)

\* The positional parameters of the methods that take **kwargs: a keyword of
\* one of these names is a TypeError at the call.
Positional(op) ==
    CASE op = "update_customer" -> {"customer_id"}
      [] op = "update_user" -> {"user_id"}
      [] op = "update_service" -> {"service_id"}
      [] op = "update_version" -> {"service_id", "version_number"}
      [] op \in UpdateOps \ {"update_settings"} ->
            {"service_id", "version_number", "name_key"}
      [] OTHER -> {}

\* The headers a method passes to _fetch.
Passed(op) == IF op = "purge_url" THEN ("Host" :> "x") ELSE << >>

\* The class whose FIELDS describe the resource a method works on.
OwnFields(op) ==
    CASE op \in {"create_backend", "update_backend"} -> FastlyBackend_FIELDS
      [] op \in {"create_cache_settings", "update_cache_settings"} ->
            FastlyCacheSettings_FIELDS
      [] op \in {"create_condition", "update_condition"} -> FastlyCondition_FIELDS
      [] op = "update_customer" -> FastlyCustomer_FIELDS
      [] op \in {"create_director", "update_director"} -> FastlyDirector_FIELDS
      [] op \in {"create_domain", "update_domain"} -> FastlyDomain_FIELDS
      [] op \in {"create_header", "update_header"} -> FastlyHeader_FIELDS
      [] op \in {"create_healthcheck", "update_healthcheck"} -> FastlyHealthCheck_FIELDS
      [] op \in {"create_request_setting", "update_request_setting"} ->
            FastlyRequestSetting_FIELDS
      [] op \in {"create_response_object", "update_response_object"} ->
            FastlyResponseObject_FIELDS
      [] op \in {"create_service", "update_service"} -> FastlyService_FIELDS
      [] op = "update_settings" -> FastlySettings_FIELDS
      [] op \in {"create_syslog", "update_syslog"} -> FastlySyslog_FIELDS
      [] op \in {"create_user", "update_user"} -> FastlyUser_FIELDS
      [] op \in {"upload_vcl", "update_vcl"} -> FastlyVCL_FIELDS
      [] op \in {"create_version", "update_version"} -> FastlyVersion_FIELDS
      [] op \in {"create_wordpress", "update_wordpress"} -> FastlyWordpress_FIELDS
      [] op = "login" -> {"user", "password"}
      [] op = "change_password" -> {"old_password", "password"}

\* The list each method passes to _formdata as valid.
Valid(op) ==
    IF op = "update_request_setting" THEN FastlyHealthCheck_FIELDS ELSE OwnFields(op)

\* The body a method sends: _formdata of its dictionary, urllib.urlencode of the
\* settings for update_settings, none for the methods that take no fields.
Body(op, fields) ==
    IF op = "update_settings" THEN urlencode(fields)
    ELSE IF op \in CreateOps \cup UpdateOps \cup FormOps THEN _formdata(fields, Valid(op))
    ELSE << >>

Method(op) ==
    CASE op \in CreateOps \cup FormOps
                 \cup {"purge_service", "purge_service_by_key",
                       "create_director_backend", "request_password_reset"} -> "POST"
      [] op \in UpdateOps \cup {"set_main_vcl", "clone_version", "activate_version",
                                "deactivate_version"} -> "PUT"
      [] op \in ConfigDeletes \cup {"delete_customer", "delete_director_backend",
                                    "delete_service", "delete_user",
                                    "delete_version"} -> "DELETE"
      [] op = "purge_url" -> "PURGE"
      [] OTHER -> "GET"

\* How many times a method calls _fetch: once, except download_vcl, which
\* raises before it sends anything.
Fetches(op) == IF op = "download_vcl" THEN 0 ELSE 1

\* What a method does with the content _fetch returned.
Post(op) ==
    CASE op \in StatusOps -> "status"
      [] op = "delete_domain" -> "status_self"
      [] op \in ListOps -> "list"
      [] op \in RawOps -> "raw"
      [] op \in ContentOps -> "content"
      [] OTHER -> "object"

\* ------------------------------------------------------------------ state

VARIABLES
    versions,   \* the service: sequence of versions, index = number
    pc,         \* where each run of the upload script stands
    opts,       \* each run's --delete_vcl and --include options, once read
    latest,     \* each run's variable latest
    observed,   \* the version each run popped from the list
    nclone,     \* clone requests each run has issued
    todo,       \* the VCL files a run still has to delete
    exists,     \* each run's answer to: vcl_name in latest.vcls
    client,     \* each run's connection: its _session and _fully_authed
    cleared,    \* each run's --delete_vcl loop: lists sent, files listed, deletes sent
    badwrite,   \* a run has sent a write for a version locked or active then
    err,        \* the error that ended a run
    resp,       \* the last exchange with the service
    pending,    \* the request a call on the connection has sent
    out,        \* how the last call on the connection went
    _session,   \* the connection's session token
    _fully_authed,  \* the connection's flag: a login has gone through
    granted,    \* the token the last completed login's answer carried
    stored      \* the configuration object the service holds

flowvars == <<versions, pc, opts, latest, observed, nclone, todo, exists,
              client, cleared, badwrite, err, resp>>

connvars == <<pending, out, _session, _fully_authed, granted, stored>>

vars == <<flowvars, connvars>>

\* The key the connection was made with; None as str() shows it.
api_key == "key"

NoSession == "None"

\* The service holds no configuration object.
NoObject ==
    [kind |-> "none", name |-> << >>, data |-> << >>, fields |-> << >>, updates |-> 0]

NoPending ==
    [op |-> "none", method |-> "none", fields |-> << >>, body |-> << >>,
     headers |-> << >>]

\* The text of an exception: the format string and what is put into it.
Message(format, args) == [format |-> format, args |-> args]

NoMessage == Message("", << >>)

\* A call as its caller sees it, with what the service did and answered:
\* requests sent, returned or raised, the exception and its text, the object
\* returned, the HTTP status and the content of the answer, the session token
\* and the stored object when the call began.
NoOut ==
    [op |-> "none", requests |-> 0, result |-> "none", error |-> "none",
     message |-> NoMessage, data |-> << >>, status |-> 0, payload |-> "none",
     verdict |-> "none", session0 |-> NoSession, authed0 |-> FALSE,
     before |-> NoObject]

\* What the last call was: the operation, the version number it was given,
\* whether it returned, the number of the version it returned (0: none) and,
\* for an activation, the versions that were active when it was sent.
NoResp == [op |-> "none", num |-> 0, ok |-> FALSE, ret |-> 0, was |-> {}]

Resp(op, n, ok, ret, was) == [op |-> op, num |-> n, ok |-> ok, ret |-> ret, was |-> was]

NoErr == [kind |-> "none", at |-> "none"]

\* A connection as fastly.connect(api_key) returns it.
NoClient == [_session |-> NoSession, _fully_authed |-> FALSE]

\* The set-cookie header of an answer: none, one without a session, and
\* session cookies with and without the semicolon the pattern asks for.
SetCookies ==
    {"absent", "lang=en; path=/", "fastly.session=s1",
     "fastly.session=s1; path=/", "fastly.session=s2; path=/"}

\* FASTLY_SESSION_REGEX.search(set_cookie): group 1 of the match of
\* (fastly\.session=[^;]+); or "nomatch".
Search(set_cookie) ==
    CASE set_cookie = "fastly.session=s1; path=/" -> "fastly.session=s1"
      [] set_cookie = "fastly.session=s2; path=/" -> "fastly.session=s2"
      [] OTHER -> "nomatch"

\* The set-cookie header of the service's answer to the login of a run.
LoginCookie == "fastly.session=s1; path=/"

\* The loop over the VCL files has not begun.
NoCleared == [lists |-> 0, listed |-> << >>, deletes |-> 0]

\* The VCL files the versions hold at the start; none of them is main yet.
InitConfigs == [vcl : [Names -> {Absent, "old"}], main : {NoName}]

\* The services a run may meet: versions numbered from 1, at most one active,
\* an active version locked.
InitVersions ==
    UNION {
      {[i \in 1..n |-> [locked |-> fl[i].locked, active |-> fl[i].active,
                        gone |-> FALSE, vcl |-> cfg.vcl, main |-> cfg.main]] :
          fl \in {f \in [1..n -> [locked : BOOLEAN, active : BOOLEAN]] :
                    /\ \A i \in 1..n : f[i].active => f[i].locked
                    /\ Cardinality({i \in 1..n : f[i].active}) <= 1},
          cfg \in InitConfigs}
      : n \in 1..MaxInit}

Init ==
    /\ versions \in InitVersions
    /\ pc = [c \in Callers |-> "start"]
    /\ opts = [c \in Callers |-> [delete |-> FALSE, include |-> FALSE]]
    /\ latest = [c \in Callers |-> NoVersion]
    /\ observed = [c \in Callers |-> NoVersion]
    /\ nclone = [c \in Callers |-> 0]
    /\ todo = [c \in Callers |-> << >>]
    /\ exists = [c \in Callers |-> FALSE]
    /\ client = [c \in Callers |-> NoClient]
    /\ cleared = [c \in Callers |-> NoCleared]
    /\ badwrite = [c \in Callers |-> FALSE]
    /\ err = [c \in Callers |-> NoErr]
    /\ resp = NoResp
    /\ pending = NoPending
    /\ out = NoOut
    /\ _session = NoSession
    /\ _fully_authed = FALSE
    /\ granted = "nologin"
    /\ stored = NoObject

\* An exception leaves main(): the run ends where it stands.
Raise(c, e) ==
    /\ pc' = [pc EXCEPT ![c] = "failed"]
    /\ err' = [err EXCEPT ![c] = [kind |-> e, at |-> pc[c]]]


\* ------------------------------------------- the upload script, main()

\* Lines 80-84 without the assignment to latest: the clone is made and the
\* script goes on with the version it had.
EnsureMutable_KeepsOld(vs, v, down) ==
    IF NeedsClone(v)
    THEN LET r == Exchange(vs, clone_version(v.number), down)
         IN  [vs |-> r.vs, ok |-> r.ok, err |-> r.err, latest |-> v, clones |-> 1]
    ELSE [vs |-> vs, ok |-> TRUE, err |-> "none", latest |-> v, clones |-> 0]

\* Lines 80-84: clone when the version at hand is locked or active, else keep it.
EnsureMutable(vs, v, down) ==
    IF NeedsClone(v)
    THEN LET r == Exchange(vs, clone_version(v.number), down)
         IN  [vs |-> r.vs, ok |-> r.ok, err |-> r.err, latest |-> r.ver, clones |-> 1]
    ELSE [vs |-> vs, ok |-> TRUE, err |-> "none", latest |-> v, clones |-> 0]

\* Lines 60-74: the options are parsed and the run exits when a required one
\* is missing; the file is read; the connection is made and logs in. login
\* sets _fully_authed once its request has returned, and _check has stored
\* the session cookie of the answer by then.
StartStep(c) ==
    /\ pc[c] = "start"
    /\ \E outcome \in {"missing", "unreadable", "down", "ok"} :
          CASE outcome = "missing" ->
                  /\ pc' = [pc EXCEPT ![c] = "exit"]
                  /\ UNCHANGED <<err, resp, client>>
            [] outcome = "unreadable" ->
                  /\ Raise(c, "IOError")
                  /\ UNCHANGED <<resp, client>>
            [] outcome = "down" ->
                  /\ Raise(c, "http")
                  /\ resp' = Resp("login", 0, FALSE, 0, {})
                  /\ UNCHANGED client
            [] OTHER ->
                  /\ pc' = [pc EXCEPT ![c] = "service"]
                  /\ resp' = Resp("login", 0, TRUE, 0, {})
                  /\ client' = [client EXCEPT ![c] =
                                  [_session |-> IF Search(LoginCookie) # "nomatch"
                                                THEN Search(LoginCookie) ELSE @._session,
                                   _fully_authed |-> TRUE]]
                  /\ UNCHANGED err
    /\ UNCHANGED <<versions, opts, latest, observed, nclone, todo, exists, cleared,
                   badwrite>>

\* Line 76: service = client.get_service_by_name(service_name)
ServiceStep(c) ==
    /\ pc[c] = "service"
    /\ \E down \in BOOLEAN :
          /\ resp' = Resp("get_service_by_name", 0, ~down, 0, {})
          /\ IF down
             THEN Raise(c, "http")
             ELSE /\ pc' = [pc EXCEPT ![c] = "list"]
                  /\ UNCHANGED err
    /\ UNCHANGED <<versions, opts, latest, observed, nclone, todo, exists, client,
                   cleared, badwrite>>

\* The credential header _fetch puts on a request of the run (lines 1057-1060).
Credential(c) ==
    IF client[c]._fully_authed THEN ("Cookie" :> client[c]._session)
    ELSE ("X-Fastly-Key" :> api_key)

\* Lines 77-78: list the versions of the service, take the last one.
ListStep(c) ==
    /\ pc[c] = "list"
    /\ \E down \in BOOLEAN, v \in {Pop(lst) : lst \in Listings(versions)} :
          /\ resp' = Resp("list_versions", 0, ~down, 0, {})
          /\ IF down
             THEN /\ Raise(c, "http")
                  /\ UNCHANGED <<latest, observed>>
             ELSE /\ latest' = [latest EXCEPT ![c] = v]
                  /\ observed' = [observed EXCEPT ![c] = v]
                  /\ pc' = [pc EXCEPT ![c] = "ensure"]
                  /\ UNCHANGED err
    /\ UNCHANGED <<client, versions, opts, nclone, todo, exists, cleared, badwrite>>

\* Lines 80-86; options.delete_vcl is read here.
EnsureStep(c) ==
    /\ pc[c] = "ensure"
    /\ \E down \in BOOLEAN, delete \in BOOLEAN :
          LET r == EnsureMutable(versions, latest[c], down)
          IN  /\ versions' = r.vs
              /\ nclone' = [nclone EXCEPT ![c] = @ + r.clones]
              /\ resp' = IF r.clones = 0 THEN Resp("none", 0, TRUE, 0, {})
                         ELSE Resp("clone_version", latest[c].number, r.ok, r.latest.number, {})
              /\ IF r.ok
                 THEN /\ latest' = [latest EXCEPT ![c] = r.latest]
                      /\ opts' = [opts EXCEPT ![c].delete = delete]
                      /\ pc' = [pc EXCEPT ![c] = IF delete THEN "dellist" ELSE "check"]
                      /\ UNCHANGED err
                 ELSE /\ Raise(c, r.err)
                      /\ UNCHANGED <<latest, opts>>
    /\ UNCHANGED <<client, observed, todo, exists, cleared, badwrite>>

\* Line 87: vcls = client.list_vcls(service.id, latest.number)
DelListStep(c) ==
    /\ pc[c] = "dellist"
    /\ \E down \in BOOLEAN :
          LET r == Exchange(versions, list_vcls(latest[c].number), down)
          IN  /\ resp' = Resp("list_vcls", latest[c].number, r.ok, 0, {})
              /\ cleared' = [cleared EXCEPT ![c] =
                                [lists |-> @.lists + 1, listed |-> r.names,
                                 deletes |-> 0]]
              /\ IF r.ok
                 THEN /\ todo' = [todo EXCEPT ![c] = r.names]
                      /\ pc' = [pc EXCEPT ![c] = IF r.names = << >> THEN "check" ELSE "del"]
                      /\ UNCHANGED err
                 ELSE /\ Raise(c, r.err)
                      /\ UNCHANGED todo
    /\ UNCHANGED <<client, versions, opts, latest, observed, nclone, exists, badwrite>>

\* A write whose failure is passed over: the run goes on with its next step.
WriteStep_GoesOn(c, req, next) ==
    \E down \in BOOLEAN :
        LET r == Exchange(versions, req, down)
        IN  /\ versions' = r.vs
            /\ resp' = Resp(req.op, req.num, r.ok, 0, {})
            /\ badwrite' = [badwrite EXCEPT ![c] = @ \/ ~Draft(versions, req.num)]
            /\ pc' = [pc EXCEPT ![c] = next]
            /\ UNCHANGED err

\* A write of the script: the request goes out, the service answers, and an
\* error answer ends the run.
WriteStep(c, req, next) ==
    \E down \in BOOLEAN :
        LET r == Exchange(versions, req, down)
        IN  /\ versions' = r.vs
            /\ resp' = Resp(req.op, req.num, r.ok, 0, {})
            /\ badwrite' = [badwrite EXCEPT ![c] = @ \/ ~Draft(versions, req.num)]
            /\ IF r.ok
               THEN /\ pc' = [pc EXCEPT ![c] = next]
                    /\ UNCHANGED err
               ELSE Raise(c, r.err)

\* A loop over vcls that goes on to the next file when a delete fails.
DelStep_GoesOn(c) ==
    /\ pc[c] = "del"
    /\ \E down \in BOOLEAN :
          LET req == delete_vcl(latest[c].number, Head(todo[c]))
              r == Exchange(versions, req, down)
          IN  /\ versions' = r.vs
              /\ resp' = Resp(req.op, req.num, r.ok, 0, {})
              /\ badwrite' = [badwrite EXCEPT ![c] = @ \/ ~Draft(versions, req.num)]
    /\ pc' = [pc EXCEPT ![c] = IF Len(todo[c]) = 1 THEN "check" ELSE "del"]
    /\ todo' = [todo EXCEPT ![c] = Tail(@)]
    /\ cleared' = [cleared EXCEPT ![c].deletes = @ + 1]
    /\ UNCHANGED <<client, opts, latest, observed, nclone, exists, err>>

\* Lines 88-92: one turn of the loop over vcls.
DelStep(c) ==
    /\ pc[c] = "del"
    /\ WriteStep(c, delete_vcl(latest[c].number, Head(todo[c])),
                 IF Len(todo[c]) = 1 THEN "check" ELSE "del")
    /\ todo' = [todo EXCEPT ![c] = Tail(@)]
    /\ cleared' = [cleared EXCEPT ![c].deletes = @ + 1]
    /\ UNCHANGED <<client, opts, latest, observed, nclone, exists>>

\* A check that never finds the file among those listed.
CheckStep_NeverFinds(c) ==
    /\ pc[c] = "check"
    /\ \E down \in BOOLEAN :
          LET r == Exchange(versions, list_vcls(latest[c].number), down)
          IN  /\ resp' = Resp("list_vcls", latest[c].number, r.ok, 0, {})
              /\ cleared' = [cleared EXCEPT ![c] = NoCleared]
              /\ IF r.ok
                 THEN /\ exists' = [exists EXCEPT ![c] = FALSE]
                      /\ pc' = [pc EXCEPT ![c] = "write"]
                      /\ UNCHANGED err
                 ELSE /\ Raise(c, r.err)
                      /\ UNCHANGED exists
    /\ UNCHANGED <<client, versions, opts, latest, observed, nclone, todo, badwrite>>

\* Line 94: vcl_name in latest.vcls, which lists the version's VCLs again.
CheckStep(c) ==
    /\ pc[c] = "check"
    /\ \E down \in BOOLEAN :
          LET r == Exchange(versions, list_vcls(latest[c].number), down)
          IN  /\ resp' = Resp("list_vcls", latest[c].number, r.ok, 0, {})
              /\ cleared' = [cleared EXCEPT ![c] = NoCleared]
              /\ IF r.ok
                 THEN /\ exists' = [exists EXCEPT ![c] =
                                      \E i \in 1..Len(r.names) : r.names[i] = vcl_name(c)]
                      /\ pc' = [pc EXCEPT ![c] = "write"]
                      /\ UNCHANGED err
                 ELSE /\ Raise(c, r.err)
                      /\ UNCHANGED exists
    /\ UNCHANGED <<client, versions, opts, latest, observed, nclone, todo, badwrite>>

\* Lines 94-106: update the file when it was listed, upload it otherwise;
\* options.include_vcl is read here.
UploadStep(c) ==
    /\ pc[c] = "write"
    /\ \E include \in BOOLEAN :
          /\ WriteStep(c,
                       IF exists[c]
                       THEN update_vcl(latest[c].number, vcl_name(c), vcl_content(c))
                       ELSE upload_vcl(latest[c].number, vcl_name(c), vcl_content(c)),
                       IF include THEN "activate" ELSE "setmain")
          /\ opts' = [opts EXCEPT ![c].include = include /\ pc'[c] # "failed"]
    /\ UNCHANGED <<client, latest, observed, nclone, todo, exists, cleared>>

\* Lines 106-108.
SetMainStep(c) ==
    /\ pc[c] = "setmain"
    /\ WriteStep(c, set_main_vcl(latest[c].number, vcl_name(c)), "activate")
    /\ UNCHANGED <<client, opts, latest, observed, nclone, todo, exists, cleared>>

\* Line 110: client.activate_version(service.id, latest.number)
ActivateStep(c) ==
    /\ pc[c] = "activate"
    /\ \E down \in BOOLEAN :
          LET r == Exchange(versions, activate_version(latest[c].number), down)
          IN  /\ versions' = r.vs
              /\ resp' = Resp("activate_version", latest[c].number, r.ok, r.ver.number,
                              ActiveSet(versions))
              /\ IF r.ok
                 THEN /\ pc' = [pc EXCEPT ![c] = "done"]
                      /\ UNCHANGED err
                 ELSE Raise(c, r.err)
    /\ UNCHANGED <<client, opts, latest, observed, nclone, todo, exists, cleared, badwrite>>

Run(c) ==
    \/ StartStep(c)
    \/ ServiceStep(c)
    \/ ListStep(c)
    \/ EnsureStep(c)
    \/ DelListStep(c)
    \/ DelStep(c)
    \/ CheckStep(c)
    \/ UploadStep(c)
    \/ SetMainStep(c)
    \/ ActivateStep(c)

\* Two runs of the script against one service, interleaved request by request.
Next == (\E c \in Callers : Run(c)) /\ UNCHANGED connvars

Spec == Init /\ [][Next]_vars

\* One run of the script, nobody else touching the service.
NextSingle == Run(1) /\ UNCHANGED connvars

SpecSingle == Init /\ [][NextSingle]_vars


\* ------------------------------------- lifecycle calls made by anybody

\* One lifecycle call on the connection: the request goes out and the answer,
\* if any, is all that comes back.
Call(op, n, req) ==
    /\ \E down \in BOOLEAN :
          LET r == Exchange(versions, req, down)
          IN  /\ versions' = r.vs
              /\ resp' = Resp(op, n, r.ok, r.ver.number,
                              IF op = "activate_version" THEN ActiveSet(versions) ELSE {})
    /\ UNCHANGED <<pc, opts, latest, observed, nclone, todo, exists, client, cleared,
                   badwrite, err>>

CallCreate ==
    /\ Len(versions) < MaxVersions
    /\ Call("create_version", 0, create_version)

CallClone(n) ==
    /\ Len(versions) < MaxVersions
    /\ Call("clone_version", n, clone_version(n))

CallActivate(n) == Call("activate_version", n, activate_version(n))

CallDeactivate(n) == Call("deactivate_version", n, deactivate_version(n))

\* update_version(service_id, n, **kwargs): a PUT with the fields of
\* FastlyVersion.FIELDS among kwargs.
update_version(n, kwargs) ==
    Request("PUT", "update_version", n, NoName, Absent)
    @@ ("body" :> _formdata(kwargs, FastlyVersion_FIELDS))

CallLock(n) == Call("lock_version", n, lock_version(n))

CallDelete(n) == Call("delete_version", n, delete_version(n))

CallUpdate(n) ==
    \E kwargs \in {("locked" :> PyFalse), ("active" :> PyTrue), ("comment" :> Given)} :
        Call("update_version", n, update_version(n, kwargs))

NextLifecycle ==
    /\ \/ CallCreate
       \/ \E n \in 1..MaxVersions :
             \/ CallClone(n)
             \/ CallActivate(n)
             \/ CallDeactivate(n)
             \/ CallLock(n)
             \/ CallDelete(n)
             \/ CallUpdate(n)
    /\ UNCHANGED connvars

SpecLifecycle == Init /\ [][NextLifecycle]_vars


\* --------------------------------------------- calls on the connection

\* The dictionaries with at most k keys out of keys, values out of Values.
RECURSIVE Dicts(_, _)
Dicts(keys, k) ==
    IF k = 0 THEN {<< >>}
    ELSE LET less == Dicts(keys, k - 1)
         IN  less \cup {d @@ (x :> v) : d \in less, x \in keys, v \in Values}

\* The keyword arguments tried on an update method: keys of the resource's own
\* list, of the list the method checks against, and one that is in neither.
UpdateKeys(op) == OwnFields(op) \cup Valid(op) \cup {"bogus"}

\* The dictionaries a method may be called with.
Arguments(op) ==
    IF op \in CreateOps \cup FormOps
    THEN {d @@ Params(op) : d \in Dicts(DOMAIN Params(op), MaxGiven)}
    ELSE IF op \in UpdateOps THEN Dicts(UpdateKeys(op), MaxGiven)
    ELSE {<< >>}

\* The arguments of a call that sets none of the optional ones.
Plain(op) == IF op \in CreateOps \cup FormOps THEN Params(op) ELSE << >>

\* What may come back: the HTTP status and what the content decodes to.
Statuses == {200, 404}

\* "list" is a JSON list with members, "nolist" the empty one.
Payloads == {"empty", "text", "ok", "error", "object", "list", "nolist"}

\* The msg and detail of the error object the service answers with.
ServerMsg == "m"

ServerDetail == "d"

\* FastlyStatus(conn, payload).<name> for a payload that is None or a JSON
\* object: the member of that name, None when there is none.
Field(payload, name) ==
    CASE payload = "ok" /\ name = "status" -> "ok"
      [] payload = "error" /\ name = "status" -> "error"
      [] payload = "error" /\ name = "msg" -> ServerMsg
      [] payload = "error" /\ name = "detail" -> ServerDetail
      [] OTHER -> "None"

\* A _check that raises on a status other than 200 only when the payload is a
\* JSON object.
_check_JsonOnly(rsp, content) ==
    IF rsp.status = 200 \/ content \in {"empty", "text", "list", "nolist"}
    THEN [raised |-> "none", payload |-> content, message |-> NoMessage,
          session |-> _session]
    ELSE [raised |-> "FastlyError", payload |-> content,
          message |-> Message("FastlyError: %s (%s)",
                              <<Field(content, "msg"), Field(content, "detail")>>),
          session |-> _session]

\* A _check that hands the payload back whatever the HTTP status is.
_check_AnyStatus(rsp, content) ==
    [raised |-> "none", payload |-> content, message |-> NoMessage,
     session |-> IF rsp.setcookie # "absent" /\ Search(rsp.setcookie) # "nomatch"
                 THEN Search(rsp.setcookie) ELSE _session]

\* _check (lines 1071-1096): on status 200 the session cookie is kept and the
\* payload returned; any other status raises.
\* A _check that stores the session cookie of an answer before it looks at
\* the status.
_check_CookieFirst(rsp, content) ==
    LET session == IF rsp.setcookie # "absent" /\ Search(rsp.setcookie) # "nomatch"
                   THEN Search(rsp.setcookie) ELSE _session
    IN  IF rsp.status = 200
        THEN [raised |-> "none", payload |-> content, message |-> NoMessage,
              session |-> session]
        ELSE IF content = "empty"
        THEN [raised |-> "Exception", payload |-> content,
              message |-> Message("HTTP Error %d occurred.", <<ToString(rsp.status)>>),
              session |-> session]
        ELSE IF content = "text"
        THEN [raised |-> "Exception", payload |-> content,
              message |-> Message("HTTP Error %d occurred. { %s }",
                                  <<ToString(rsp.status), content>>),
              session |-> session]
        ELSE IF content \in {"list", "nolist"}
        THEN [raised |-> "TypeError", payload |-> content, message |-> NoMessage,
              session |-> session]
        ELSE [raised |-> "FastlyError", payload |-> content,
              message |-> Message("FastlyError: %s (%s)",
                                  <<Field(content, "msg"), Field(content, "detail")>>),
              session |-> session]

_check(rsp, content) ==
    IF rsp.status = 200
    THEN [raised |-> "none", payload |-> content, message |-> NoMessage,
          session |-> IF rsp.setcookie # "absent" /\ Search(rsp.setcookie) # "nomatch"
                      THEN Search(rsp.setcookie) ELSE _session]
    ELSE IF content = "empty"
    THEN [raised |-> "Exception", payload |-> content,
          message |-> Message("HTTP Error %d occurred.", <<ToString(rsp.status)>>),
          session |-> _session]
    ELSE IF content = "text"
    THEN [raised |-> "Exception", payload |-> content,
          message |-> Message("HTTP Error %d occurred. { %s }",
                              <<ToString(rsp.status), content>>),
          session |-> _session]
    ELSE IF content \in {"list", "nolist"}
    THEN [raised |-> "TypeError", payload |-> content, message |-> NoMessage,
          session |-> _session]
    ELSE [raised |-> "FastlyError", payload |-> content,
          message |-> Message("FastlyError: %s (%s)",
                              <<Field(content, "msg"), Field(content, "detail")>>),
          session |-> _session]

\* A _status that takes no answer for a success.
_status_NeverOk(payload) ==
    CASE payload \in {"text", "list"} -> [raised |-> "AttributeError", message |-> NoMessage]
      [] OTHER -> [raised |-> "FastlyError",
                   message |-> Message("FastlyError: %s", <<Field(payload, "msg")>>)]

\* _status (lines 1030-1037): True when the content's status is "ok".
_status(payload) ==
    CASE payload = "ok" -> [raised |-> "none", message |-> NoMessage]
      [] payload \in {"text", "list"} -> [raised |-> "AttributeError", message |-> NoMessage]
      [] OTHER -> [raised |-> "FastlyError",
                   message |-> Message("FastlyError: %s", <<Field(payload, "msg")>>)]

\* What a method does, and raises if anything, once _fetch has returned content.
AfterFetch(op, payload) ==
    CASE Post(op) = "status" -> _status(payload)
      [] Post(op) = "status_self" -> [raised |-> "TypeError", message |-> NoMessage]
      [] Post(op) = "list" ->
            [raised |-> IF payload = "empty" THEN "TypeError" ELSE "none",
             message |-> NoMessage]
      [] Post(op) = "content" ->
            [raised |-> IF payload \in {"ok", "error", "object"} THEN "none"
                        ELSE "AttributeError",
             message |-> NoMessage]
      [] OTHER -> [raised |-> "none", message |-> NoMessage]

\* The headers _fetch sends (lines 1051-1064).
Headers(method, headers) ==
    (IF _fully_authed THEN ("Cookie" :> _session) ELSE ("X-Fastly-Key" :> api_key))
    @@ ("Content-Accept" :> "application/json")
    @@ (IF "Content-Type" \notin DOMAIN headers /\ method \in {"POST", "PUT"}
        THEN ("Content-Type" :> "application/x-www-form-urlencoded")
        ELSE << >>)
    @@ headers

\* A method is called: it builds its body and sends its request, or raises
\* before it sends one (a keyword that is also a positional parameter,
\* download_vcl).
Invoke(op, fields) ==
    /\ IF DOMAIN fields \cap Positional(op) # {}
       THEN /\ out' = [NoOut EXCEPT !.op = op, !.result = "raised",
                                    !.error = "TypeError",
                                    !.session0 = _session,
                                    !.authed0 = _fully_authed, !.before = stored]
            /\ UNCHANGED pending
       ELSE IF Fetches(op) = 0
       THEN /\ out' = [NoOut EXCEPT !.op = op, !.result = "raised",
                                    !.error = "Exception",
                                    !.message = Message("Not implemented", << >>),
                                    !.session0 = _session,
                                    !.authed0 = _fully_authed, !.before = stored]
            /\ UNCHANGED pending
       ELSE /\ pending' = [op |-> op, method |-> Method(op), fields |-> fields,
                           body |-> Body(op, fields),
                           headers |-> Headers(Method(op), Passed(op))]
            /\ out' = [NoOut EXCEPT !.op = op, !.requests = Fetches(op),
                                    !.result = "pending",
                                    !.session0 = _session,
                                    !.authed0 = _fully_authed, !.before = stored]
    /\ UNCHANGED <<flowvars, _session, _fully_authed, granted, stored>>

\* The service has acted and its answer arrives: _check, then the rest of the
\* method. login sets _fully_authed once _fetch has returned.
Respond(reply) ==
    /\ pending # NoPending
    /\ LET c == _check([status |-> reply.status, setcookie |-> reply.setcookie],
                       reply.content)
           after == IF c.raised # "none"
                    THEN [raised |-> c.raised, message |-> c.message]
                    ELSE AfterFetch(pending.op, reply.content)
           returned == after.raised = "none"
           login_done == pending.op = "login" /\ returned
       IN  /\ out' = [out EXCEPT !.result = IF returned THEN "returned" ELSE "raised",
                                 !.error = after.raised,
                                 !.message = after.message,
                                 !.data = IF returned /\ Post(pending.op) = "object"
                                          THEN reply.data ELSE << >>,
                                 !.status = reply.status,
                                 !.payload = reply.content,
                                 !.verdict = reply.verdict]
           /\ _session' = c.session
           /\ _fully_authed' = IF login_done THEN TRUE ELSE _fully_authed
           /\ granted' = IF login_done THEN Search(reply.setcookie) ELSE granted
    /\ stored' = reply.stored
    /\ pending' = NoPending
    /\ UNCHANGED flowvars

\* The caller has the result, or the exception, in hand.
Return ==
    /\ pending = NoPending
    /\ out # NoOut
    /\ out' = NoOut
    /\ UNCHANGED <<pending, flowvars, _session, _fully_authed, granted, stored>>

\* No call is under way on the connection.
Idle == pending = NoPending /\ out = NoOut

\* Answers of any status and content that leave the stored object alone.
Replies(cookies) ==
    {[status |-> s, setcookie |-> h, content |-> p, data |-> << >>,
      stored |-> stored, verdict |-> "unknown"] :
        s \in Statuses, h \in cookies, p \in Payloads}

NextConn ==
    \/ Idle /\ \E op \in Ops : \E fields \in Arguments(op) : Invoke(op, fields)
    \/ \E reply \in Replies({"absent"}) : Respond(reply)
    \/ Return

\* One connection used by one caller; the service is one with a single active
\* version.
InitConn ==
    /\ Init
    /\ Len(versions) = 1
    /\ versions[1].active
    /\ Present(versions, 1) = {}

SpecConn == InitConn /\ [][NextConn]_vars

\* Calls with plain arguments, answered with any set-cookie header.
NextSession ==
    \/ Idle /\ \E op \in Ops : Invoke(op, Plain(op))
    \/ \E reply \in Replies(SetCookies) : Respond(reply)
    \/ Return

SpecSession == InitConn /\ [][NextSession]_vars

\* Purges on one connection to a service whose versions are in any state.
PurgeOps == {"purge_service", "purge_service_by_key"}

NextPurge ==
    \/ Idle /\ \E op \in PurgeOps : Invoke(op, Plain(op))
    \/ \E reply \in Replies({"absent"}) : Respond(reply)
    \/ Return

SpecPurge == Init /\ [][NextPurge]_vars

\* ------------------------------- the service's configuration objects

\* The shapes in which the service reports a failure: a JSON object with
\* status, msg and detail, a text that is not JSON, no content.
ErrorShapes == {"error", "text", "empty"}

\* The service refuses a request: nothing changes.
Refusals(st, status, verdict) ==
    {[status |-> status, setcookie |-> "absent", content |-> shape,
      data |-> << >>, stored |-> st, verdict |-> verdict] : shape \in ErrorShapes}

\* POST .../{kind}: the object is stored under its name with the values of the
\* body; a body without a name is refused, and so is a name already taken.
ServerCreateObject(st, req) ==
    IF "name" \notin DOMAIN req.body THEN Refusals(st, 400, "invalid")
    ELSE LET name == Unquote(req.body["name"])
             data == [k \in DOMAIN req.body |-> Unquote(req.body[k])]
         IN  IF st.kind = Kind(req.op) /\ st.name = name
             THEN Refusals(st, 409, "conflict")
             ELSE {[status |-> 200, setcookie |-> "absent", content |-> "object",
                    data |-> data,
                    stored |-> [kind |-> Kind(req.op), name |-> name, data |-> data,
                                fields |-> req.fields, updates |-> 0],
                    verdict |-> "created"]}

\* GET .../{kind}/{name}: the stored object, or 404.
ServerGetObject(st, req) ==
    IF st.kind = Kind(req.op) /\ st.name = req.fields["name"].val
    THEN {[status |-> 200, setcookie |-> "absent", content |-> "object",
           data |-> st.data, stored |-> st, verdict |-> "found"]}
    ELSE Refusals(st, 404, "notfound")

\* DELETE .../{kind}/{name}: the object is gone and the answer is
\* {"status": "ok"}, or 404.
ServerDeleteObject(st, req) ==
    IF st.kind = Kind(req.op) /\ st.name = req.fields["name"].val
    THEN {[status |-> 200, setcookie |-> "absent", content |-> "ok",
           data |-> << >>, stored |-> NoObject, verdict |-> "deleted"]}
    ELSE Refusals(st, 404, "notfound")

\* PUT .../{kind}/{name}: the values of the body replace those the object
\* holds, the others stay; 404 when there is no such object. The update names
\* the object the service holds, when it holds one of that kind.
ServerUpdateObject(st, req) ==
    IF st.kind = Kind(req.op)
    THEN LET data == [k \in DOMAIN st.data \cup DOMAIN req.body |->
                        IF k \in DOMAIN req.body THEN Unquote(req.body[k])
                        ELSE st.data[k]]
             new == [st EXCEPT !.data = data, !.name = data["name"],
                               !.updates = @ + 1]
         IN  {[status |-> 200, setcookie |-> "absent", content |-> "object",
               data |-> data, stored |-> new, verdict |-> "updated"]}
    ELSE Refusals(st, 404, "notfound")

ServeObject(st, req) ==
    IF req.op \in ConfigCreates THEN ServerCreateObject(st, req)
    ELSE IF req.op \in ConfigGets THEN ServerGetObject(st, req)
    ELSE IF req.op \in ConfigUpdates THEN ServerUpdateObject(st, req)
    ELSE ServerDeleteObject(st, req)

\* A second create under the name of the stored object, every other argument
\* set to a value the first create did not use.
Rival(op, name) ==
    [k \in DOMAIN Params(op) |-> IF k = "name" THEN PyStr(name) ELSE PyInt(<<"7">>)]

\* The value an update gives to the field it changes.
Changed == PyStr(<<"c">>)

\* The calls made on the configuration objects: any create while the service
\* holds none, and then a second create, updates, a get and a delete under
\* that name; a get, an update and a delete of a name the service does not
\* hold.
StoreArguments(op) ==
    IF op \in ConfigCreates
    THEN IF stored = NoObject THEN Arguments(op)
         ELSE IF Kind(op) = stored.kind THEN {Rival(op, stored.name)}
         ELSE {}
    ELSE IF op \in ConfigUpdates
    THEN IF stored = NoObject \/ (Kind(op) = stored.kind /\ stored.updates < MaxUpdates)
         THEN {k :> Changed : k \in {"name", "comment"}} ELSE {}
    ELSE IF stored = NoObject THEN {"name" :> Given}
    ELSE IF Kind(op) = stored.kind THEN {"name" :> PyStr(stored.name)}
    ELSE {}

NextStore ==
    \/ /\ Idle
       /\ \E op \in ConfigCreates \cup ConfigGets \cup ConfigUpdates \cup ConfigDeletes :
             \E fields \in StoreArguments(op) : Invoke(op, fields)
    \/ /\ pending # NoPending
       /\ \E reply \in ServeObject(stored, pending) : Respond(reply)
    \/ Return

SpecStore == InitConn /\ [][NextStore]_vars

\* ------------------------------------------------------------ properties

WriteOps == {"delete_vcl", "update_vcl", "upload_vcl", "set_main_vcl"}

Immutable(v) == v.locked \/ v.active

PastEnsure(c) ==
    /\ pc[c] \notin {"start", "exit", "service", "list", "ensure"}
    /\ ~(pc[c] = "failed" /\ err[c].at \in {"start", "service", "list", "ensure"})

\* C1: in a single run of the upload script, every delete_vcl, update_vcl,
\* upload_vcl and set_main_vcl request is sent for a version that is neither
\* locked nor active when it is sent, whatever the service looked like at the
\* start; so the service never refuses one as a write to a locked version.
C1_WritesGoToDrafts ==
    /\ ~badwrite[1]
    /\ err[1].kind # "locked"
    /\ (resp.op \in WriteOps /\ resp.ok) => Draft(versions, resp.num)

\* A run that found an immutable version, cloned it and wrote to the clone.
C1_Witness ==
    /\ Immutable(observed[1])
    /\ nclone[1] = 1
    /\ resp.op \in WriteOps
    /\ resp.ok
    /\ resp.num = latest[1].number

\* C2: when the version at hand is locked or active, lines 80-84 send exactly
\* one clone request, and the version the clone returns has a number strictly
\* greater than the one at hand and is neither locked nor active.
C2_CloneOfImmutable ==
    \A c \in Callers :
        /\ nclone[c] <= 1
        /\ (Immutable(observed[c]) /\ pc[c] # "ensure") => nclone[c] = 1
        /\ (Immutable(observed[c]) /\ PastEnsure(c)) =>
              /\ latest[c].number > observed[c].number
              /\ latest[c].locked = FALSE
              /\ latest[c].active = FALSE

\* The clone of an immutable version has just been returned.
C2_Witness ==
    /\ resp.op = "clone_version"
    /\ resp.ok
    /\ \E c \in Callers :
          /\ pc[c] \in {"dellist", "check"}
          /\ Immutable(observed[c])
          /\ latest[c].number = resp.ret
          /\ resp.ret > resp.num

\* C3: on a version that is neither locked nor active, lines 80-84 send no
\* clone request and keep the version, once or twice in a row, and the
\* service's versions stay as they are.
C3_DraftIsKept ==
    \A c \in Callers :
        /\ (pc[c] = "ensure" /\ ~Immutable(latest[c])) =>
              LET r1 == EnsureMutable(versions, latest[c], FALSE)
                  r2 == EnsureMutable(r1.vs, r1.latest, FALSE)
              IN  /\ r1.clones = 0 /\ r1.latest = latest[c] /\ r1.vs = versions
                  /\ r2.clones = 0 /\ r2.latest = latest[c] /\ r2.vs = versions
        /\ (~Immutable(observed[c]) /\ PastEnsure(c)) =>
              /\ nclone[c] = 0
              /\ latest[c] = observed[c]

\* A run that found a draft and went on with it.
C3_Witness ==
    \E c \in Callers :
        /\ pc[c] = "write"
        /\ observed[c].number > 0
        /\ ~Immutable(observed[c])
        /\ latest[c] = observed[c]
        /\ nclone[c] = 0

\* C4: the version the script takes as latest is the one with the greatest
\* number, in whatever order the service lists the versions.
C4_LatestIsMax ==
    pc[1] = "ensure" => latest[1].number = Len(versions)

\* C5: when activate_version(service, v) has returned, v is the one active
\* version of the service, and a version that was active before is not.
C5_ActivatedIsTheActive ==
    (resp.op = "activate_version" /\ resp.ok) =>
        /\ ActiveSet(versions) = {resp.num}
        /\ \A m \in resp.was \ {resp.num} : ~versions[m].active

\* An activation that took over from another active version.
C5_Witness ==
    /\ resp.op = "activate_version"
    /\ resp.ok
    /\ resp.was # {}
    /\ resp.num \notin resp.was
    /\ versions[resp.num].active

\* C6: whatever create_version, clone_version, activate_version and
\* deactivate_version calls have been made, at most one version is active.
C6_AtMostOneActive == Cardinality(ActiveSet(versions)) <= 1

\* Three versions, two of them activated at some time, one of them active.
C6_Witness ==
    /\ Len(versions) >= 3
    /\ Cardinality({n \in DOMAIN versions : versions[n].locked}) >= 2
    /\ Cardinality(ActiveSet(versions)) = 1

\* Both runs took the same immutable version as latest and both ran to the end.
RaceDone ==
    /\ pc[1] = "done" /\ pc[2] = "done"
    /\ observed[1] = observed[2]
    /\ Immutable(observed[1])

Edits(c, n) == versions[n].vcl[vcl_name(c)] = vcl_content(c)

\* C7 as stated: after such a race there are two distinct clones, one holds
\* the edits that are active, and the other clone was never activated.
C7_LoserNeverActivated ==
    RaceDone =>
        /\ latest[1].number # latest[2].number
        /\ \E w \in Callers : \E l \in Callers \ {w} :
              /\ ActiveSet(versions) = {latest[w].number}
              /\ Edits(w, latest[w].number)
              /\ ~versions[latest[l].number].locked

\* C7 amended: after such a race there are two distinct clones, both newer
\* than the version observed; each run activated its own clone, the clone
\* activated last is the active one and holds that run's edits only, the other
\* clone is locked and inactive; and while both runs work on clones of the
\* same version the service refuses no request of either.
C7_LastActivationWins ==
    /\ RaceDone =>
          /\ latest[1].number # latest[2].number
          /\ \A c \in Callers : latest[c].number > observed[c].number
          /\ \E w \in Callers : \E l \in Callers \ {w} :
                /\ ActiveSet(versions) = {latest[w].number}
                /\ Edits(w, latest[w].number)
                /\ ~Edits(l, latest[w].number)
                /\ versions[latest[l].number].locked
                /\ ~versions[latest[l].number].active
                /\ Edits(l, latest[l].number)
    /\ (observed[1] = observed[2] /\ Immutable(observed[1])
            /\ PastEnsure(1) /\ PastEnsure(2)) =>
          \A c \in Callers : err[c].kind \in {"none", "http"} /\ ~badwrite[c]

\* The race has ended with the second run's clone active.
C7_Witness ==
    /\ RaceDone
    /\ ActiveSet(versions) = {latest[2].number}
    /\ versions[latest[1].number].locked
    /\ latest[1].number < latest[2].number


FormDataOps == (CreateOps \cup UpdateOps \cup FormOps) \ {"update_settings"}

\* The call never got into the method: a keyword argument had the name of a
\* positional parameter.
BadCall == out.result = "raised" /\ out.error = "TypeError" /\ out.status = 0

\* C8: every call on the connection that gets into its method sends exactly
\* one HTTP request, whether it returns or raises; none sends its request
\* again and none sends none.
C8_OneRequestPerCall == (out.op # "none" /\ ~BadCall) => out.requests = 1

\* C9: the body of every create and update call holds only keys of the
\* resource's own FIELDS list, and no key that was given the value None.
C9_BodyKeysAllowed ==
    pending.op \in CreateOps \cup UpdateOps =>
        /\ DOMAIN pending.body \subseteq OwnFields(pending.op)
        /\ \A k \in DOMAIN pending.fields :
              pending.fields[k] = PyNone => k \notin DOMAIN pending.body

\* C10: in a body built by _formdata, a field given True is sent as "1", one
\* given False as "0", one given None is not sent, and any other value is sent
\* as its own text: the service reads back exactly str(value).
C10_Serialization ==
    pending.op \in FormDataOps =>
        \A k \in DOMAIN pending.fields \cap Valid(pending.op) :
            LET v == pending.fields[k]
                sent == k \in DOMAIN pending.body
            IN  /\ v = PyTrue => sent /\ pending.body[k] = <<"1">>
                /\ v = PyFalse => sent /\ pending.body[k] = <<"0">>
                /\ v = PyNone => ~sent
                /\ v.ty \notin {"bool", "NoneType"} =>
                      sent /\ Unquote(pending.body[k]) = v.val

\* A create call given False, None and a text with a space and an ampersand.
C10_Witness ==
    /\ pending.op = "create_backend"
    /\ pending.fields["use_ssl"] = PyFalse
    /\ pending.body["use_ssl"] = <<"0">>
    /\ pending.fields["shield"] = PyNone
    /\ "shield" \notin DOMAIN pending.body
    /\ pending.fields["comment"] = PyStr(<<"a", " ", "&">>)
    /\ pending.body["comment"] = <<"a", "+", "%", "2", "6">>

\* C11: an update call sends exactly the fields it was given that are not
\* None and that are in the FIELDS list of the resource it updates; nothing
\* else is sent, so the service keeps every value the caller left out.
C11_UpdateSendsOwnFields ==
    pending.op \in UpdateOps =>
        DOMAIN pending.body =
            {k \in DOMAIN pending.fields \cap OwnFields(pending.op) :
                pending.fields[k] # PyNone}

\* The text a value has once it went through _formdata and urlencode.
AsSent(v) == IF v = PyTrue THEN <<"1">> ELSE IF v = PyFalse THEN <<"0">> ELSE v.val

\* C12: the object a get returns after a create under the same name, with no
\* update in between, has, for every parameter of the create, the value the
\* create was called with: the caller's where one was given, the default of
\* the signature otherwise.
C12_CreateGetRoundTrip ==
    (out.op \in ConfigGets /\ out.result = "returned" /\ out.verdict = "found"
        /\ out.before.updates = 0) =>
        \A k \in DOMAIN out.before.fields :
            Attribute(out.before.kind, out.data, k)
                = AsSent(out.before.fields[k])

\* C13: a create under a name the service already holds an object of that kind
\* for raises an error of the client, and the object held is the same as before.
C13_DuplicateCreateRaises ==
    (out.op \in ConfigCreates /\ out.verdict = "conflict") =>
        /\ out.result = "raised"
        /\ out.error \in {"FastlyError", "Exception"}
        /\ stored = out.before

C13_Witness ==
    /\ out.op = "create_backend"
    /\ out.verdict = "conflict"
    /\ out.result = "raised"
    /\ out.error = "FastlyError"
    /\ stored.fields["port"] = PyInt(<<"0">>)
    /\ stored.data["port"] = <<"0">>

\* C14: delete_backend of a name the service does not hold raises: a
\* FastlyError with the service's msg and detail when the 404 answer is a JSON
\* object, an Exception that names the status when it is text or empty.
C14_DeleteMissingBackendRaises ==
    (out.op = "delete_backend" /\ out.verdict = "notfound") =>
        LET parts == {out.message.args[i] : i \in DOMAIN out.message.args}
        IN  /\ out.result = "raised"
            /\ IF out.payload = "error"
               THEN out.error = "FastlyError" /\ {ServerMsg, ServerDetail} \subseteq parts
               ELSE out.error = "Exception" /\ "404" \in parts

C14_Witness ==
    /\ out.op = "delete_backend"
    /\ out.verdict = "notfound"
    /\ out.payload = "empty"
    /\ out.result = "raised"
    /\ out.message = Message("HTTP Error %d occurred.", <<"404">>)

\* C15: a delete of a configuration object returns when the service deleted the
\* object and answered {"status": "ok"}, and raises in every other case.
C15_DeleteReturnsIffDeleted ==
    (out.op \in ConfigDeletes /\ out.result \in {"returned", "raised"}) =>
        (out.result = "returned" <=> out.verdict = "deleted")

\* C16: an answer whose JSON payload has a status other than "ok" never comes
\* back to the caller as a result: the call raises, for activate_version as
\* for every other method, and also when the HTTP status is 200.
C16_ErrorStatusIsRaised ==
    (out.result \in {"returned", "raised"} /\ out.payload = "error") =>
        out.result = "raised"

\* C17: the exception raised for an answer that reports a failure with a msg
\* and a detail has both of them in its text, whichever path raises it.
C17_ErrorCarriesMsgAndDetail ==
    (out.result = "raised" /\ out.payload = "error") =>
        LET parts == {out.message.args[i] : i \in DOMAIN out.message.args}
        IN  ServerMsg \in parts /\ ServerDetail \in parts

\* C18: while a call is handled the session token differs from the one the
\* connection had when the call began only if the call is a login that returned.
C18_SessionSetByLoginOnly ==
    (out.op # "none" /\ _session # out.session0) =>
        (out.op = "login" /\ out.result = "returned")

\* C19: a request has exactly one of the headers X-Fastly-Key and Cookie: the
\* API key as long as no login has returned, and from then on the session
\* cookie that the answer to the last login carried.
C19_OneCredential ==
    pending # NoPending =>
        LET cred == DOMAIN pending.headers \cap {"Cookie", "X-Fastly-Key"}
        IN  /\ Cardinality(cred) = 1
            /\ IF granted = "nologin"
               THEN cred = {"X-Fastly-Key"} /\ pending.headers["X-Fastly-Key"] = api_key
               ELSE /\ cred = {"Cookie"}
                    /\ granted # "nomatch"
                    /\ pending.headers["Cookie"] = granted

\* The files of the list from place i on.
ListedFrom(c, i) ==
    {cleared[c].listed[j] : j \in i..Len(cleared[c].listed)}

\* C20: with --delete_vcl the run lists the VCL files of its version once and
\* sends one delete per file listed, in turn. While the loop runs the files not
\* yet reached are the ones left; when every delete went through no file is
\* left; when the k-th delete fails the run ends there with an error, the
\* files before the k-th are gone, the k-th and the later ones are still there.
C20_ClearAllVcl ==
    LET cl == cleared[1]
        n == latest[1].number
        k == cl.deletes
    IN  /\ cl.lists <= 1
        /\ k <= Len(cl.listed)
        /\ pc[1] = "del" =>
              /\ cl.lists = 1
              /\ todo[1] = SubSeq(cl.listed, k + 1, Len(cl.listed))
              /\ todo[1] # << >>
              /\ Present(versions, n) = ListedFrom(1, k + 1)
        /\ (pc[1] = "check" /\ cl.lists = 1) =>
              /\ k = Len(cl.listed)
              /\ Present(versions, n) = {}
        /\ (pc[1] = "failed" /\ err[1].at = "del") =>
              /\ k >= 1
              /\ resp.op = "delete_vcl" /\ ~resp.ok
              /\ err[1].kind # "none"
              /\ Present(versions, n) = ListedFrom(1, k)

\* The second of two deletes fails: the first file is gone, the second is there.
C20_Witness ==
    /\ pc[1] = "failed"
    /\ err[1].at = "del"
    /\ Len(cleared[1].listed) = 2
    /\ cleared[1].deletes = 2
    /\ Present(versions, latest[1].number) = {cleared[1].listed[2]}

\* The run has failed at a step that comes after its clone was made.
FailedAfterClone(c) ==
    /\ pc[c] = "failed"
    /\ nclone[c] = 1
    /\ err[c].at # "ensure"

\* C21: in a single run, a request that fails is the last one the run sends:
\* no delete_version and no activation follow it. When the run fails after it
\* made its clone, the clone is still there, neither locked nor active, and
\* since no step but the activation that succeeds changes which version is
\* active, the version active at the start is still the active one.
C21_NoRollback ==
    /\ [](/\ (resp.op # "none" /\ ~resp.ok) => (pc[1] = "failed" /\ err[1].kind # "none")
          /\ FailedAfterClone(1) =>
                /\ ~resp.ok
                /\ resp.op # "delete_version"
                /\ resp.op = "activate_version" => err[1].at = "activate"
                /\ latest[1].number = Len(versions)
                /\ Draft(versions, latest[1].number))
    /\ [][pc'[1] # "done" =>
            /\ Len(versions') >= Len(versions)
            /\ ActiveSet(versions') = ActiveSet(versions)]_vars

\* The upload to the clone of the active version failed.
C21_Witness ==
    /\ FailedAfterClone(1)
    /\ err[1].at = "write"
    /\ observed[1].active
    /\ ActiveSet(versions) = {observed[1].number}
    /\ Draft(versions, latest[1].number)

\* The configuration objects of a version.
Config(v) == [vcl |-> v.vcl, main |-> v.main]

\* C22: also with two runs at work, a clone that succeeds adds one version
\* whose configuration objects are those its source has at that moment, and
\* the objects of a version change only by a write that names this version
\* and succeeds: a write to a clone leaves its source and every other version
\* as they are.
C22_CloneIsolation ==
    [][/\ \A m \in DOMAIN versions :
            Config(versions'[m]) # Config(versions[m]) =>
                (resp'.op \in WriteOps /\ resp'.ok /\ resp'.num = m)
       /\ Len(versions') # Len(versions) =>
            /\ resp'.op = "clone_version" /\ resp'.ok
            /\ Len(versions') = Len(versions) + 1
            /\ resp'.ret = Len(versions')
            /\ resp'.num \in DOMAIN versions
            /\ Config(versions'[resp'.ret]) = Config(versions[resp'.num])
       /\ (resp' # resp /\ resp'.op = "clone_version" /\ resp'.ok) =>
            Len(versions') # Len(versions)]_vars

\* A run has written to its clone of a version that holds a file: the clone
\* differs from its source.
C22_Witness ==
    \E c \in Callers :
        /\ nclone[c] = 1
        /\ PastEnsure(c)
        /\ resp.op \in WriteOps /\ resp.ok /\ resp.num = latest[c].number
        /\ Present(versions, observed[c].number) # {}
        /\ Config(versions[latest[c].number]) # Config(versions[observed[c].number])

\* C23: purge_service_by_key sends one POST and returns exactly when the
\* answer is HTTP 200 with status "ok", whether the versions of the service
\* are drafts, locked or active and whether one is active or none; the call
\* leaves every version's number, flags and configuration objects as they are.
C23_PurgeByKey ==
    /\ [](out.op = "purge_service_by_key" =>
            /\ out.requests = 1
            /\ pending # NoPending => (pending.method = "POST" /\ DOMAIN pending.body = {})
            /\ out.result \in {"returned", "raised"} =>
                  (out.result = "returned" <=> (out.status = 200 /\ out.payload = "ok")))
    /\ [][versions' = versions]_vars

\* The purge returned on a service that has a locked version, a draft and no
\* active version.
C23_Witness ==
    /\ out.op = "purge_service_by_key"
    /\ out.result = "returned"
    /\ ActiveSet(versions) = {}
    /\ \E n \in DOMAIN versions : versions[n].locked
    /\ \E n \in DOMAIN versions : Draft(versions, n)

\* C24: whoever calls and in whatever order, every version keeps the number
\* it has, the number of a version that was deleted is not given out again,
\* and a create_version or clone_version that returns has added exactly one
\* version and returns it with a number greater than the number of every
\* version the service had before.
C24_NumbersGrow ==
    [][/\ \A n \in DOMAIN versions :
            /\ n \in DOMAIN versions'
            /\ versions[n].gone => versions'[n].gone
            /\ VersionJson(versions', n).number = VersionJson(versions, n).number
       /\ (resp'.op \in {"create_version", "clone_version"} /\ resp'.ok) =>
            /\ Len(versions') = Len(versions) + 1
            /\ resp'.ret = VersionJson(versions', Len(versions')).number
            /\ Has(versions', resp'.ret)
            /\ \A n \in DOMAIN versions : resp'.ret > VersionJson(versions, n).number
       /\ Len(versions') # Len(versions) =>
            (resp'.op \in {"create_version", "clone_version"} /\ resp'.ok)]_vars

\* A clone of the first of two versions has got the number three.
C24_Witness ==
    /\ resp.op = "clone_version"
    /\ resp.ok
    /\ resp.num = 1
    /\ resp.ret = Len(versions)
    /\ resp.ret = MaxVersions

\* C25: with two runs at work on the same service, no write (delete_vcl,
\* update_vcl, upload_vcl, set_main_vcl) of either run is sent for a version
\* that is locked or active when the service gets it; this includes the runs
\* that both saw the same draft as latest and did not clone.
C25_NoWriteToImmutableInRace ==
    \A c \in Callers :
        /\ ~badwrite[c]
        /\ (observed[1] = observed[2] /\ ~Immutable(observed[c]) /\ PastEnsure(c)) =>
              err[c].kind # "locked"

\* C26: whenever the connection counts as fully authenticated it holds a
\* session token, and no request goes out with a Cookie header that holds no
\* token; a login answered with HTTP 200 and no session cookie is included.
C26_AuthedHasSession ==
    /\ _fully_authed => _session # NoSession
    /\ (pending # NoPending /\ "Cookie" \in DOMAIN pending.headers) =>
          pending.headers["Cookie"] # NoSession

\* C27: a login answered with a status other than 200 raises, and the
\* connection is as it was before the call: the same session token, the same
\* _fully_authed, and so the same credential header on the requests that
\* follow.
C27_FailedLoginChangesNothing ==
    /\ (out.op = "login" /\ out.result \in {"returned", "raised"} /\ out.status # 200) =>
          /\ out.result = "raised"
          /\ out.error # "none"
          /\ _session = out.session0
          /\ _fully_authed = out.authed0
          /\ LET h == Headers("GET", << >>)
             IN  IF out.authed0
                 THEN /\ "X-Fastly-Key" \notin DOMAIN h
                      /\ "Cookie" \in DOMAIN h /\ h["Cookie"] = out.session0
                 ELSE /\ "Cookie" \notin DOMAIN h
                      /\ "X-Fastly-Key" \in DOMAIN h /\ h["X-Fastly-Key"] = api_key

\* A login failed on a connection that an earlier login had authenticated.
C27_Witness ==
    /\ out.op = "login"
    /\ out.result = "raised"
    /\ out.status = 404
    /\ out.authed0
    /\ out.session0 # NoSession
    /\ _fully_authed
    /\ _session = out.session0

\* C28: the body of a create call holds every argument that was given a
\* value other than None: the filter drops no named parameter of the method.
C28_CreateSendsEveryArgument ==
    (pending # NoPending /\ pending.op \in CreateOps) =>
        \A k \in DOMAIN pending.fields :
            pending.fields[k] # PyNone => k \in DOMAIN pending.body

\* C29: in a single run the file is uploaded only when the listing of the
\* target version did not hold its name and updated otherwise; what the run
\* saw is still so when it writes, so the service refuses neither the create
\* for a name it holds nor the update for a name it lacks. A run with the
\* delete option that reaches its end leaves the target version with the
\* uploaded file and no other, and this version is the active one.
C29_UploadOrUpdate ==
    /\ pc[1] = "write" =>
          (exists[1] <=> vcl_name(1) \in Present(versions, latest[1].number))
    /\ resp.op = "upload_vcl" => ~exists[1]
    /\ resp.op = "update_vcl" => exists[1]
    /\ err[1].kind \notin {"conflict", "notfound"}
    /\ (pc[1] = "done" /\ opts[1].delete) =>
          /\ Present(versions, latest[1].number) = {vcl_name(1)}
          /\ versions[latest[1].number].vcl[vcl_name(1)] = vcl_content(1)
          /\ resp.op = "activate_version" /\ resp.ok /\ resp.num = latest[1].number
          /\ ActiveSet(versions) = {latest[1].number}

\* A run with the delete option has ended on its clone of a version that held
\* two files.
C29_Witness ==
    /\ pc[1] = "done"
    /\ opts[1].delete
    /\ nclone[1] = 1
    /\ Present(versions, observed[1].number) = Names
    /\ Present(versions, latest[1].number) = {vcl_name(1)}
    /\ ActiveSet(versions) = {latest[1].number}

====
